---------------------------- MODULE Spec2Model ----------------------------
(***************************************************************************)
(* Model of app.py, the Amazon listing compliance checker: load_blacklist, *)
(* check_text (the regex scan and the sequential HTML highlighting) and    *)
(* the result pane of the Streamlit script.                                *)
(*                                                                         *)
(* A Python str is a sequence of one-character strings.  Offsets into a    *)
(* str are 0-based, as in Python's re module; TLA+ sequences are 1-based.  *)
(***************************************************************************)
EXTENDS Integers, Sequences, FiniteSets

(***************************************************************************)
(* Python values that may be None.                                         *)
(***************************************************************************)
None == [tag |-> "None", val |-> <<>>]

Str(s) == [tag |-> "str", val |-> s]

NoFile == [tag |-> "missing", val |-> <<>>]

Dict(d) == [tag |-> "dict", val |-> d]

\* Python truthiness of a str-or-None value: None and "" are falsy.
Truthy(v) == v.tag = "str" /\ v.val # <<>>

(***************************************************************************)
(* The literal pieces of the marker built at line 78:                      *)
(*   <span style="{highlight_style}" title="{reason}">{m.group(0)}</span>  *)
(***************************************************************************)
SpanOpen ==
    <<"<", "s", "p", "a", "n", " ", "s", "t", "y", "l", "e", "=", "\"">>

StyleRed ==
    <<"b", "a", "c", "k", "g", "r", "o", "u", "n", "d", "-", "c", "o", "l", "o", "r",
      ":", " ", "#", "f", "f", "4", "b", "4", "b", ";", " ", "c", "o", "l", "o", "r",
      ":", " ", "w", "h", "i", "t", "e", ";", " ", "p", "a", "d", "d", "i", "n", "g",
      ":", " ", "2", "p", "x", " ", "4", "p", "x", ";", " ", "b", "o", "r", "d", "e",
      "r", "-", "r", "a", "d", "i", "u", "s", ":", " ", "4", "p", "x", ";">>

StyleOrange ==
    <<"b", "a", "c", "k", "g", "r", "o", "u", "n", "d", "-", "c", "o", "l", "o", "r",
      ":", " ", "#", "f", "f", "a", "5", "0", "0", ";", " ", "c", "o", "l", "o", "r",
      ":", " ", "w", "h", "i", "t", "e", ";", " ", "p", "a", "d", "d", "i", "n", "g",
      ":", " ", "2", "p", "x", " ", "4", "p", "x", ";", " ", "b", "o", "r", "d", "e",
      "r", "-", "r", "a", "d", "i", "u", "s", ":", " ", "4", "p", "x", ";">>

StyleYellow ==
    <<"b", "a", "c", "k", "g", "r", "o", "u", "n", "d", "-", "c", "o", "l", "o", "r",
      ":", " ", "#", "f", "f", "d", "7", "0", "0", ";", " ", "c", "o", "l", "o", "r",
      ":", " ", "b", "l", "a", "c", "k", ";", " ", "p", "a", "d", "d", "i", "n", "g",
      ":", " ", "2", "p", "x", " ", "4", "p", "x", ";", " ", "b", "o", "r", "d", "e",
      "r", "-", "r", "a", "d", "i", "u", "s", ":", " ", "4", "p", "x", ";">>

TitleOpen ==
    <<"\"", " ", "t", "i", "t", "l", "e", "=", "\"">>

TagEnd ==
    <<"\"", ">">>

SpanClose ==
    <<"<", "/", "s", "p", "a", "n", ">">>

\* Lines 67-73: CRITICAL is red, HIGH is orange, every other level yellow.
highlight_style(level) ==
    IF level = "CRITICAL" THEN StyleRed
    ELSE IF level = "HIGH" THEN StyleOrange
    ELSE StyleYellow

\* The opening tag of the marker of line 78.
OpenTag(level, reason) ==
    SpanOpen \o highlight_style(level) \o TitleOpen \o reason \o TagEnd

(***************************************************************************)
(* The regular expressions of lines 44-51.  Every pattern is an escaped    *)
(* literal, optionally between two \b, matched with re.IGNORECASE.         *)
(***************************************************************************)
LowerCase ==
    <<"a", "b", "c", "d", "e", "f", "g", "h", "i", "j", "k", "l", "m",
      "n", "o", "p", "q", "r", "s", "t", "u", "v", "w", "x", "y", "z">>

UpperCase ==
    <<"A", "B", "C", "D", "E", "F", "G", "H", "I", "J", "K", "L", "M",
      "N", "O", "P", "Q", "R", "S", "T", "U", "V", "W", "X", "Y", "Z">>

Digits == {"0", "1", "2", "3", "4", "5", "6", "7", "8", "9"}

Range(f) == {f[i] : i \in DOMAIN f}

\* \w of a str pattern, over the characters that occur here.
WordChars == Range(LowerCase) \cup Range(UpperCase) \cup Digits \cup {"_"}

\* re.IGNORECASE compares characters up to letter case.
Fold(c) ==
    IF c \in Range(UpperCase)
    THEN LowerCase[CHOOSE i \in DOMAIN UpperCase : UpperCase[i] = c]
    ELSE c

\* Whether a word character stands at 1-based position k of s; outside s
\* there is none.
IsWordAt(s, k) == k \in 1..Len(s) /\ s[k] \in WordChars

\* \b at offset p of s: exactly one of the characters around p is a word
\* character.
WordBoundary(s, p) == IsWordAt(s, p) # IsWordAt(s, p + 1)

\* Lines 44-48: r'\b' + re.escape(term) + r'\b' for "exact", re.escape(term)
\* for anything else.
Pattern(term, match_type) == [lit |-> term, wordb |-> (match_type = "exact")]

\* The pattern matches s at offset i.
MatchAt(pattern, s, i) ==
    /\ i >= 0
    /\ i + Len(pattern.lit) <= Len(s)
    /\ \A j \in 1..Len(pattern.lit) : Fold(s[i + j]) = Fold(pattern.lit[j])
    /\ pattern.wordb =>
          WordBoundary(s, i) /\ WordBoundary(s, i + Len(pattern.lit))

Candidates(pattern, s) == {i \in 0..Len(s) : MatchAt(pattern, s, i)}

SetMin(S) == CHOOSE x \in S : \A y \in S : x <= y

\* The scan of finditer and sub: the leftmost match at or after an offset,
\* then on from its end (an empty match moves on by one character).
RECURSIVE Leftmost(_, _, _)
Leftmost(C, m, from) ==
    LET R == {c \in C : c >= from}
    IN  IF R = {} THEN <<>>
        ELSE <<SetMin(R)>>
                \o Leftmost(C, m, SetMin(R) + (IF m = 0 THEN 1 ELSE m))

\* A scan that also reports the matches that overlap an earlier match.
finditer_overlapping(pattern, s) == Leftmost(Candidates(pattern, s), 0, 0)

\* list(re.finditer(pattern, s, re.IGNORECASE)), as the start offsets.
finditer(pattern, s) == Leftmost(Candidates(pattern, s), Len(pattern.lit), 0)

\* m.group(0) of the match of length m at offset start.
group0(s, start, m) == SubSeq(s, start + 1, start + m)

\* The result of re.sub over the matches ms (from the k-th on, the text
\* before offset pos being done): the text between matches is kept and each
\* match becomes open + m.group(0) + close.
RECURSIVE Splice(_, _, _, _, _, _, _)
Splice(s, ms, m, open, close, k, pos) ==
    IF k > Len(ms) THEN SubSeq(s, pos + 1, Len(s))
    ELSE SubSeq(s, pos + 1, ms[k]) \o open \o group0(s, ms[k], m) \o close
            \o Splice(s, ms, m, open, close, k + 1, ms[k] + m)

\* A substitution that writes the term as declared in place of m.group(0).
re_sub_term(pattern, open, close, s) ==
    LET ms == finditer(pattern, s)
        m  == Len(pattern.lit)
        In(i, k) == i - ms[k] \in 1..m
        t  == [i \in 1..Len(s) |->
                 IF \E k \in 1..Len(ms) : In(i, k)
                 THEN pattern.lit[i - ms[CHOOSE k \in 1..Len(ms) : In(i, k)]]
                 ELSE s[i]]
    IN  Splice(t, ms, m, open, close, 1, 0)

\* Lines 76-81: re.sub(pattern, lambda m: f'<span ...>{m.group(0)}</span>',
\* highlighted_text, flags=re.IGNORECASE)
re_sub(pattern, open, close, s) ==
    Splice(s, finditer(pattern, s), Len(pattern.lit), open, close, 1, 0)

(***************************************************************************)
(* Where each character of highlighted_text comes from: <<0, "text", 0>>   *)
(* for a character of the input, and <<k, part, rem>> for a character of   *)
(* the opening or closing tag inserted by the substitution made for the    *)
(* k-th violation, rem characters of that tag following it.                *)
(***************************************************************************)
FromText(s) == [i \in 1..Len(s) |-> <<0, "text", 0>>]

FromTag(k, part, n) == [i \in 1..n |-> <<k, part, n - i>>]

(***************************************************************************)
(* The inputs: listing texts and rule files.                               *)
(***************************************************************************)
MaxTextLen == 3

Alphabet == {"a", "A", "%"}

RECURSIVE SeqsUpTo(_, _)
SeqsUpTo(S, n) ==
    IF n = 0 THEN {<<>>}
    ELSE LET shorter == SeqsUpTo(S, n - 1)
         IN  shorter \cup {Append(s, c) : s \in shorter, c \in S}

Texts == SeqsUpTo(Alphabet, MaxTextLen)

Terms == {<<"a">>, <<"A", "a">>, <<"a", "%">>}

MatchTypes == {"exact", "broad"}

Reasons == {<<"f", "a", "k", "e">>}

RiskLevels == {"CRITICAL", "HIGH", "MEDIUM"}

KeywordFields == {"term", "match_type", "reason", "suggestion"}

CategoryFields == {"category_name", "risk_level", "keywords"}

Keywords ==
    {[term |-> t, match_type |-> m, reason |-> r, suggestion |-> "remove"] :
        t \in Terms, m \in MatchTypes, r \in Reasons}

\* An entry of the file that lacks "suggestion".
IncompleteKeywords ==
    {[term |-> <<"a">>, match_type |-> "broad", reason |-> r] : r \in Reasons}

AnyKeywords == Keywords \cup IncompleteKeywords

ShortKeywordLists == {<<>>} \cup {<<k>> : k \in AnyKeywords}

KeywordLists ==
    ShortKeywordLists \cup {<<k1, k2>> : k1 \in AnyKeywords, k2 \in AnyKeywords}

CategoriesOver(lists) ==
    {[category_name |-> "Claims", risk_level |-> l, keywords |-> ks] :
        l \in RiskLevels, ks \in lists}
    \cup {[category_name |-> "Claims", keywords |-> <<>>]}

CategoryLists ==
    {<<>>}
    \cup {<<c>> : c \in CategoriesOver(KeywordLists)}
    \cup {<<c1, c2>> : c1 \in CategoriesOver(ShortKeywordLists),
                       c2 \in CategoriesOver(ShortKeywordLists)}

Meta == [version |-> "1.1", last_updated |-> "2024"]

RuleSets ==
    {[meta |-> Meta, categories |-> cs] : cs \in CategoryLists}
    \cup {[meta |-> Meta]}

Files == {NoFile} \cup {Dict(r) : r \in RuleSets}

(***************************************************************************)
(* The state.                                                              *)
(***************************************************************************)
VARIABLES
    pc,               \* where the script is
    file,             \* amazon_jewelry_blacklist_v1.1.json, or NoFile
    blacklist,        \* what load_blacklist returned
    via,              \* who called check_text: "ui" (line 109) or "api"
    text,             \* check_text's argument
    violations,       \* check_text's list of records
    highlighted_text, \* check_text's annotated text
    origin,           \* where each character of highlighted_text comes from
    ci,               \* categories taken by the outer loop
    ki,               \* keywords of the current category taken by the inner loop
    cat_name,         \* category['category_name'] of the current category
    risk_level,       \* category['risk_level'] of the current category
    pane,             \* what the result column shows
    critical_count,   \* line 131
    critical_warning  \* whether line 133 showed its warning

vars ==
    <<pc, file, blacklist, via, text, violations, highlighted_text, origin,
      ci, ki, cat_name, risk_level, pane, critical_count, critical_warning>>

scan == <<violations, highlighted_text, origin>>

loop == <<ci, ki, cat_name, risk_level>>

report == <<pane, critical_count, critical_warning>>

Init ==
    /\ pc = "load"
    /\ file \in Files
    /\ blacklist = None
    /\ via = ""
    /\ text = None
    /\ violations = <<>>
    /\ highlighted_text = None
    /\ origin = <<>>
    /\ ci = 0
    /\ ki = 0
    /\ cat_name = ""
    /\ risk_level = ""
    /\ pane = ""
    /\ critical_count = 0
    /\ critical_warning = FALSE

(***************************************************************************)
(* load_blacklist, lines 14-21 and 91.                                     *)
(***************************************************************************)
load_blacklist == IF file.tag = "missing" THEN None ELSE file

LoadBlacklist ==
    /\ pc = "load"
    /\ blacklist' = load_blacklist
    /\ pc' = "ui"
    /\ UNCHANGED <<file, via, text, scan, loop, report>>

(***************************************************************************)
(* The result column, lines 107-138: the button and the text area decide   *)
(* whether check_text is called.                                           *)
(***************************************************************************)
UIDispatch ==
    /\ pc = "ui"
    /\ \E check_btn \in BOOLEAN, user_input \in Texts :
          IF check_btn /\ user_input # <<>>
          THEN IF blacklist.tag = "dict"
               THEN /\ text' = Str(user_input)
                    /\ via' = "ui"
                    /\ pc' = "check_text"
                    /\ pane' = pane
               ELSE /\ pc' = "done"
                    /\ UNCHANGED <<text, via, pane>>
          ELSE /\ pane' = (IF check_btn THEN "no_text" ELSE "waiting")
               /\ pc' = "done"
               /\ UNCHANGED <<text, via>>
    /\ UNCHANGED <<file, blacklist, scan, loop, critical_count, critical_warning>>

\* check_text is a module-level function: a caller other than line 109 may
\* pass it a text that the button's guard never lets through.
DirectCall ==
    /\ pc = "ui"
    /\ \E t \in {None, Str(<<>>)} :
          text' = t
    /\ via' = "api"
    /\ pc' = "check_text"
    /\ UNCHANGED <<file, blacklist, scan, loop, report>>

(***************************************************************************)
(* check_text, lines 24-83.                                                *)
(***************************************************************************)
\* A guard that lets the empty string through: text is None.
text_is_none(t) == t.tag = "None"

\* Line 25: if not text
not_text(t) == ~Truthy(t)

\* Lines 25-32: the early return, the two initialisations and the lookup
\* of blacklist_data['categories'].
CheckTextEnter ==
    /\ pc = "check_text"
    /\ violations' = <<>>
    /\ highlighted_text' = text
    /\ origin' = FromText(text.val)
    /\ IF not_text(text)
       THEN pc' = "returned"
       ELSE IF "categories" \in DOMAIN blacklist.val
            THEN pc' = "for_category"
            ELSE pc' = "KeyError"
    /\ UNCHANGED <<file, blacklist, via, text, loop, report>>

\* Lines 32-36 and 83: the next category, or the return after the last one.
NextCategory ==
    /\ pc = "for_category"
    /\ LET categories == blacklist.val.categories
       IN  IF ci = Len(categories)
           THEN /\ pc' = "returned"
                /\ UNCHANGED loop
           ELSE LET category == categories[ci + 1]
                IN  /\ ci' = ci + 1
                    /\ ki' = 0
                    /\ IF CategoryFields \subseteq DOMAIN category
                       THEN /\ cat_name' = category.category_name
                            /\ risk_level' = category.risk_level
                            /\ pc' = "for_keyword"
                       ELSE /\ pc' = "KeyError"
                            /\ UNCHANGED <<cat_name, risk_level>>
    /\ UNCHANGED <<file, blacklist, via, text, scan, report>>

\* Lines 55-62: the record appended for a term that matched.
ViolationRecord(level, item, name, matches) ==
    [risk_level |-> level,
     term       |-> item.term,
     category   |-> name,
     reason     |-> item.reason,
     suggestion |-> item.suggestion,
     count      |-> Len(matches)]

\* An append that keeps one record per term text.
append_new_term(list, record) ==
    IF \E i \in 1..Len(list) : list[i].term = record.term
    THEN list
    ELSE Append(list, record)

\* Line 55: violations.append(...)
append(list, record) == Append(list, record)

\* Lines 36-81: one keyword of the current category.
NextKeyword ==
    /\ pc = "for_keyword"
    /\ LET keywords == blacklist.val.categories[ci].keywords
       IN  IF ki = Len(keywords)
           THEN /\ pc' = "for_category"
                /\ UNCHANGED <<ki, scan>>
           ELSE LET item == keywords[ki + 1]
                IN  /\ ki' = ki + 1
                    /\ IF ~(KeywordFields \subseteq DOMAIN item)
                       THEN /\ pc' = "KeyError"
                            /\ UNCHANGED scan
                       ELSE LET pattern == Pattern(item.term, item.match_type)
                                matches == finditer(pattern, text.val)
                                k       == Len(violations) + 1
                                open    == OpenTag(risk_level, item.reason)
                            IN  /\ pc' = "for_keyword"
                                /\ IF matches = <<>>
                                   THEN UNCHANGED scan
                                   ELSE /\ violations' =
                                             append(violations,
                                                    ViolationRecord(risk_level, item,
                                                                    cat_name, matches))
                                        /\ highlighted_text' =
                                             Str(re_sub(pattern, open, SpanClose,
                                                        highlighted_text.val))
                                        /\ origin' =
                                             Splice(origin,
                                                    finditer(pattern, highlighted_text.val),
                                                    Len(pattern.lit),
                                                    FromTag(k, "open", Len(open)),
                                                    FromTag(k, "close", Len(SpanClose)),
                                                    1, 0)
    /\ UNCHANGED <<file, blacklist, via, text, ci, cat_name, risk_level, report>>

(***************************************************************************)
(* The report, lines 111-133.                                              *)
(***************************************************************************)
\* A count of the occurrences, not the records, of CRITICAL terms.
RECURSIVE CriticalOccurrences(_)
CriticalOccurrences(vs) ==
    IF vs = <<>> THEN 0
    ELSE (IF Head(vs).risk_level = "CRITICAL" THEN Head(vs).count ELSE 0)
            + CriticalOccurrences(Tail(vs))

\* Line 131: len([v for v in violations if v['risk level'] == 'CRITICAL'])
CriticalOf(vs) == Len(SelectSeq(vs, LAMBDA v : v.risk_level = "CRITICAL"))

Report ==
    /\ pc = "returned"
    /\ via = "ui"
    /\ IF violations = <<>>
       THEN /\ pane' = "success"
            /\ UNCHANGED <<critical_count, critical_warning>>
       ELSE /\ pane' = "error"
            /\ critical_count' = CriticalOf(violations)
            /\ critical_warning' = (CriticalOf(violations) > 0)
    /\ pc' = "done"
    /\ UNCHANGED <<file, blacklist, via, text, scan, loop>>

Next ==
    \/ LoadBlacklist
    \/ UIDispatch
    \/ DirectCall
    \/ CheckTextEnter
    \/ NextCategory
    \/ NextKeyword
    \/ Report

Spec == Init /\ [][Next]_vars

(***************************************************************************)
(* What the properties below speak about.  These definitions state the     *)
(* properties; they are written from the wording of the properties, not    *)
(* from the operators above.                                               *)
(***************************************************************************)
\* check_text has been entered on a non-empty text and a file with categories.
Scanned ==
    /\ Truthy(text)
    /\ pc \in {"for_category", "for_keyword", "returned", "done", "KeyError"}
    /\ "categories" \in DOMAIN blacklist.val

\* check_text has returned from a scan of a non-empty text.
Returned == Scanned /\ pc \in {"returned", "done"}

Declared == blacklist.val.categories

EntriesOf(c) == [k \in 1..Len(Declared[c].keywords) |-> <<c, k>>]

\* The declared entries, category by category, as <<category, keyword>>.
RECURSIVE EntriesUpTo(_)
EntriesUpTo(n) == IF n = 0 THEN <<>> ELSE EntriesUpTo(n - 1) \o EntriesOf(n)

\* The entries whose loop iteration has run to its end.
Taken ==
    LET last == IF pc = "KeyError" THEN ki - 1 ELSE ki
    IN  SelectSeq(EntriesUpTo(Len(Declared)),
                  LAMBDA e : e[1] < ci \/ (e[1] = ci /\ e[2] <= last))

ItemOf(e) == Declared[e[1]].keywords[e[2]]

SameLetter(c, d) ==
    c = d \/ \E i \in DOMAIN LowerCase : {c, d} = {LowerCase[i], UpperCase[i]}

\* The term stands at offset i of s, in any letter case.
OccursAt(term, s, i) ==
    /\ i + Len(term) <= Len(s)
    /\ \A j \in 1..Len(term) : SameLetter(s[i + j], term[j])

WordBefore(s, i) == i >= 1 /\ s[i] \in WordChars

WordAfter(s, i) == i + 1 <= Len(s) /\ s[i + 1] \in WordChars

\* A match of the item's pattern at offset i: the term, and for "exact" a
\* word boundary on both sides of it.
PatternAt(item, s, i) ==
    /\ OccursAt(item.term, s, i)
    /\ item.match_type = "exact" =>
          /\ WordBefore(s, i) # WordAfter(s, i)
          /\ WordBefore(s, i + Len(item.term)) # WordAfter(s, i + Len(item.term))

\* The number of non-overlapping matches, left to right from offset pos.
RECURSIVE CountFrom(_, _, _)
CountFrom(item, s, pos) ==
    IF pos + Len(item.term) > Len(s) THEN 0
    ELSE IF PatternAt(item, s, pos)
         THEN 1 + CountFrom(item, s,
                            pos + (IF item.term = <<>> THEN 1 ELSE Len(item.term)))
         ELSE CountFrom(item, s, pos + 1)

Matches(e) == CountFrom(ItemOf(e), text.val, 0)

\* The taken entries that have a match, in declaration order.
TakenMatching == SelectSeq(Taken, LAMBDA e : Matches(e) >= 1)

\* The position in violations of the record of the j-th taken entry.
RecordIndex(j) == Len(SelectSeq(SubSeq(Taken, 1, j), LAMBDA e : Matches(e) >= 1))

\* The ends of the opening tags inserted for the k-th record.
MarkersOf(k) == {i \in 1..Len(origin) : origin[i] = <<k, "open", 0>>}

\* The annotated text, each character with its origin.
Annotated ==
    [i \in 1..Len(origin) |-> <<highlighted_text.val[i], origin[i]>>]

\* The marker whose opening tag ends at i wraps an occurrence of the term:
\* the characters of the input between that tag and the next closing tag
\* inserted with it spell the term.
Wraps(i, k, term) ==
    LET closes == {j \in (i + 1)..Len(origin) :
                      origin[j] = <<k, "close", Len(SpanClose) - 1>>}
    IN  /\ closes # {}
        /\ LET c     == CHOOSE j \in closes : \A h \in closes : j <= h
               inner == SelectSeq(SubSeq(Annotated, i + 1, c - 1),
                                  LAMBDA z : z[2][1] = 0)
           IN  /\ Len(inner) = Len(term)
               /\ \A j \in 1..Len(term) : SameLetter(inner[j][1], term[j])

(***************************************************************************)
(* C1: each record's occurrence count is the number of non-overlapping,    *)
(* case-insensitive, left-to-right matches of its term's pattern in the    *)
(* original input, counted independently of the other terms; it is at      *)
(* least 1, and a term without a match has no record.                      *)
(***************************************************************************)
OccurrenceCountIsMatchCount ==
    Scanned =>
       /\ Len(violations) = Len(TakenMatching)
       /\ \A k \in 1..Len(violations) :
             /\ violations[k].term = ItemOf(TakenMatching[k]).term
             /\ violations[k].count = Matches(TakenMatching[k])
             /\ violations[k].count >= 1

\* "Aa" has two overlapping occurrences in "aAa" and one match; "a" has three.
OccurrenceCountWitness ==
    /\ pc = "returned"
    /\ text = Str(<<"a", "A", "a">>)
    /\ Len(violations) = 2
    /\ violations[1].term = <<"A", "a">> /\ violations[1].count = 1
    /\ violations[2].term = <<"a">> /\ violations[2].count = 3

\* The term stands at offset i with no word character on either side.
WholeWordAt(term, s, i) ==
    OccursAt(term, s, i) /\ ~WordBefore(s, i) /\ ~WordAfter(s, i + Len(term))

(***************************************************************************)
(* C2: for an "exact" term, an occurrence next to a word character is      *)
(* never counted and never wrapped, and an occurrence with a non-word      *)
(* character or a text end on both sides is counted exactly once.          *)
(***************************************************************************)
ExactCountsWholeWordsOnly ==
    Scanned =>
       \A j \in 1..Len(Taken) :
          LET item  == ItemOf(Taken[j])
              whole == {i \in 0..Len(text.val) : WholeWordAt(item.term, text.val, i)}
              k     == RecordIndex(j)
          IN  item.match_type = "exact" =>
                 IF Matches(Taken[j]) >= 1
                 THEN /\ k <= Len(violations)
                      /\ violations[k].count = Cardinality(whole)
                      /\ Cardinality(MarkersOf(k)) <= Cardinality(whole)
                 ELSE whole = {}

(***************************************************************************)
(* C3: a "broad" term whose text occurs anywhere in the input, in any      *)
(* letter case, has a record with an occurrence count of at least 1, and   *)
(* the annotated text wraps that occurrence.                               *)
(***************************************************************************)
BroadTermFoundAndWrapped ==
    Returned =>
       \A j \in 1..Len(Taken) :
          LET item == ItemOf(Taken[j])
              k    == RecordIndex(j)
          IN  (/\ item.match_type = "broad"
               /\ \E i \in 0..Len(text.val) : OccursAt(item.term, text.val, i))
              => /\ Matches(Taken[j]) >= 1
                 /\ k <= Len(violations)
                 /\ violations[k].term = item.term
                 /\ violations[k].count >= 1
                 /\ \E i \in MarkersOf(k) : Wraps(i, k, item.term)

\* check_text has been entered on an empty or null text.
CalledOnNoText == via # "" /\ pc # "check_text" /\ ~Truthy(text)

(***************************************************************************)
(* C4: check_text on an empty or null text returns no violations and the   *)
(* empty string as annotated text, raises nothing and evaluates no rule.   *)
(***************************************************************************)
EmptyTextGivesEmptyString ==
    CalledOnNoText =>
       /\ pc = "returned"
       /\ violations = <<>>
       /\ highlighted_text = Str(<<>>)

\* C4 as amended: the annotated text is the text that was passed, the empty
\* string for an empty text and null for a null text.
EmptyTextReturnedUnchanged ==
    CalledOnNoText =>
       /\ pc = "returned"
       /\ violations = <<>>
       /\ highlighted_text = text
       /\ ci = 0 /\ ki = 0
       /\ Cardinality({k \in 1..Len(violations) :
                          violations[k].risk_level = "CRITICAL"}) = 0

\* A null text with a file that has no categories at all.
EmptyTextWitness ==
    /\ pc = "returned"
    /\ via = "api"
    /\ text = None
    /\ blacklist.tag = "dict"
    /\ "categories" \notin DOMAIN blacklist.val

\* An entry has a match somewhere in the input.
HasMatch(e) == \E i \in 0..Len(text.val) : PatternAt(ItemOf(e), text.val, i)

(***************************************************************************)
(* C5: the violation list is the declared entries that have a match, in    *)
(* declaration order whatever the positions of the matches, one record     *)
(* per entry, also for entries with the same term text.                    *)
(***************************************************************************)
ViolationsInDeclarationOrder ==
    Returned =>
       LET expected == SelectSeq(EntriesUpTo(Len(Declared)), HasMatch)
       IN  /\ Len(violations) = Len(expected)
           /\ \A k \in 1..Len(violations) :
                 LET item == ItemOf(expected[k])
                     cat  == Declared[expected[k][1]]
                 IN  /\ violations[k].term = item.term
                     /\ violations[k].reason = item.reason
                     /\ violations[k].suggestion = item.suggestion
                     /\ violations[k].category = cat.category_name
                     /\ violations[k].risk_level = cat.risk_level

\* Two entries with the same term text in two categories of different risk
\* levels, both matching at the end of the text.
DeclarationOrderWitness ==
    /\ pc = "returned"
    /\ ci = 2
    /\ text = Str(<<"a", "A", "%">>)
    /\ Len(violations) = 2
    /\ violations[1].term = <<"a", "%">>
    /\ violations[2].term = <<"a", "%">>
    /\ violations[1].risk_level # violations[2].risk_level

\* The characters of the annotated text that come from origin k.
CharsFrom(k) ==
    LET kept == SelectSeq(Annotated, LAMBDA z : z[2][1] = k)
    IN  [i \in 1..Len(kept) |-> kept[i][1]]

\* s is unit written some number of times.
Repeats(s, unit) ==
    /\ Len(s) % Len(unit) = 0
    /\ \A i \in 1..Len(s) : s[i] = unit[((i - 1) % Len(unit)) + 1]

(***************************************************************************)
(* C6: after every substitution the annotated text holds the characters of *)
(* the input in their order and letter case, and what was added is whole   *)
(* markers: an opening tag and a closing tag around each matched range.    *)
(***************************************************************************)
AnnotationKeepsInput ==
    Scanned =>
       /\ Len(highlighted_text.val) = Len(origin)
       /\ CharsFrom(0) = text.val
       /\ \A i \in 1..Len(origin) : origin[i][1] \in 0..Len(violations)
       /\ \A k \in 1..Len(violations) :
             Repeats(CharsFrom(k),
                     OpenTag(violations[k].risk_level, violations[k].reason)
                        \o SpanClose)

\* Two substitutions on a text whose letter case differs from the terms'.
AnnotationWitness ==
    /\ pc = "returned"
    /\ text = Str(<<"A", "%", "A">>)
    /\ Len(violations) = 2
    /\ violations[1].term = <<"a", "%">>
    /\ violations[2].term = <<"a">>
    /\ Len(origin) > Len(text.val)

(***************************************************************************)
(* C7: no substitution inserts anything inside a marker inserted for an    *)
(* earlier term: every opening and closing tag stays in one piece.         *)
(***************************************************************************)
MarkersStayIntact ==
    \A i \in 1..Len(origin) :
       origin[i][3] > 0 =>
          /\ i < Len(origin)
          /\ origin[i + 1] = <<origin[i][1], origin[i][2], origin[i][3] - 1>>

(***************************************************************************)
(* C8: a term reported with occurrence count n has exactly n markers in    *)
(* the annotated text, each around one of its matched substrings, also     *)
(* when an earlier term's match overlaps it.                               *)
(***************************************************************************)
EveryMatchHighlighted ==
    Returned =>
       \A k \in 1..Len(violations) :
          /\ Cardinality(MarkersOf(k)) = violations[k].count
          /\ \A i \in MarkersOf(k) : Wraps(i, k, violations[k].term)

\* A category, a file, in which no required field is missing.
CompleteCategory(c) ==
    /\ CategoryFields \subseteq DOMAIN c
    /\ \A k \in 1..Len(c.keywords) : KeywordFields \subseteq DOMAIN c.keywords[k]

CompleteRuleSet(r) ==
    "categories" \in DOMAIN r =>
       \A c \in 1..Len(r.categories) : CompleteCategory(r.categories[c])

(***************************************************************************)
(* C9: a file in which a category or a term lacks a required field is      *)
(* rejected when it is loaded: check_text is never started on it and       *)
(* never fails on the incomplete rule after recording earlier terms.       *)
(***************************************************************************)
IncompleteRuleSetNeverScanned ==
    (file.tag = "dict" /\ ~CompleteRuleSet(file.val)) =>
       /\ pc \notin {"for_category", "for_keyword", "returned", "KeyError"}
       /\ violations = <<>>

(***************************************************************************)
(* C10: the critical count is the number of records, not of occurrences,   *)
(* whose risk level is exactly CRITICAL, and the warning is shown if and   *)
(* only if it is positive.                                                 *)
(***************************************************************************)
CriticalCountIsRecordCount ==
    /\ pane = "error" =>
          /\ critical_count =
                Cardinality({k \in 1..Len(violations) :
                                violations[k].risk_level = "CRITICAL"})
          /\ critical_warning = (critical_count > 0)
    /\ pane # "error" => ~critical_warning

\* One CRITICAL record with three occurrences and one HIGH record.
CriticalCountWitness ==
    /\ pane = "error"
    /\ Len(violations) = 2
    /\ violations[1].risk_level = "CRITICAL" /\ violations[1].count = 3
    /\ violations[2].risk_level = "HIGH"
    /\ critical_count = 1
    /\ critical_warning


=============================================================================
